---- MODULE Spec2Model ----
(***************************************************************************)
(* A model of launcher.py: the update and single-instance coordination     *)
(* controller.  One process of the model is one run of main(); the install *)
(* directory, the manifest share, the runtime descriptor and the running   *)
(* instance's HTTP endpoint are the environment.                           *)
(*                                                                         *)
(* Python strings are sequences of one-character strings, so that strip(), *)
(* lower(), replace(), startswith() and endswith() are computed, not       *)
(* assumed.  File contents are sequences of chunks (numbers).              *)
(***************************************************************************)
EXTENDS Integers, Sequences, FiniteSets, TLC

(***************************************************************************)
(* Strings                                                                 *)
(***************************************************************************)

\* str.strip() removes these (the model's whitespace).
Whitespace == {" "}

RECURSIVE LStrip(_)
LStrip(s) ==
  IF s = <<>> THEN <<>>
  ELSE IF Head(s) \in Whitespace THEN LStrip(Tail(s)) ELSE s

RECURSIVE RStrip(_)
RStrip(s) ==
  IF s = <<>> THEN <<>>
  ELSE IF s[Len(s)] \in Whitespace THEN RStrip(SubSeq(s, 1, Len(s) - 1)) ELSE s

\* str.strip()
Strip(s) == RStrip(LStrip(s))

\* The upper-case letters the model's strings use, with their lower case.
LowerChar(c) ==
  CASE c = "A" -> "a"
    [] c = "B" -> "b"
    [] c = "C" -> "c"
    [] c = "E" -> "e"
    [] c = "M" -> "m"
    [] c = "V" -> "v"
    [] c = "W" -> "w"
    [] c = "X" -> "x"
    [] OTHER   -> c

\* str.lower()
Lower(s) == [i \in 1..Len(s) |-> LowerChar(s[i])]

\* str.replace("/", "\\")
ReplaceSlash(s) == [i \in 1..Len(s) |-> IF s[i] = "/" THEN "\\" ELSE s[i]]

\* str.startswith(p)
StartsWith(s, p) == Len(p) <= Len(s) /\ SubSeq(s, 1, Len(p)) = p

\* str.endswith(p)
EndsWith(s, p) ==
  Len(p) <= Len(s) /\ SubSeq(s, Len(s) - Len(p) + 1, Len(s)) = p

(***************************************************************************)
(* Program constants                                                       *)
(***************************************************************************)

\* APP_EXE_BASENAME, as characters
APP_EXE_BASENAME ==
  <<"v","a","l","i","d","a","t","i","o","n","-","u","i",".","e","x","e">>

\* the suffix _pid_looks_like_our_ui tests for: "\\validation-ui.exe"
UiSuffix == <<"\\">> \o APP_EXE_BASENAME

\* range(20): the graceful polls after POST /shutdown
GracefulPolls == 20

\* range(25): the polls after a successful taskkill
KillPolls == 25

\* os.name of the platform the launcher is built for (taskkill, powershell,
\* os.startfile and the UNC manifest path exist on Windows only)
os_name == "nt"

(***************************************************************************)
(* Bounds of the model                                                     *)
(***************************************************************************)

\* chunks of one artifact: a file is written one chunk at a time
ArtLen == 2

\* the longest version string built from VerAlphabet
MaxVerLen == 3

\* how many times the publisher replaces the manifest during a run
MaxPublish == 1

(***************************************************************************)
(* Files, artifacts and hashes                                             *)
(***************************************************************************)

\* the bytes of build v of the application
Art(v) == [i \in 1..ArtLen |-> 10 * v + i]

\* bytes that are no build of the application (a tampered or corrupt file)
EvilBytes == [i \in 1..ArtLen |-> 90 + i]

\* the bytes of the auxiliary tool, and a tampered copy of it
PbiArt == [i \in 1..ArtLen |-> 50 + i]
EvilPbi == [i \in 1..ArtLen |-> 60 + i]

\* the builds the model knows
Builds == 1..3

\* the build a file's bytes are, 0 when they are no complete build
BuildOf(data) ==
  IF \E v \in Builds : data = Art(v)
  THEN CHOOSE v \in Builds : data = Art(v)
  ELSE 0

\* a file: present or not, with its bytes
NoFile == [exists |-> FALSE, data |-> <<>>]
File(d) == [exists |-> TRUE, data |-> d]

Digit(d) ==
  CASE d = 0 -> "0" [] d = 1 -> "1" [] d = 2 -> "2" [] d = 3 -> "3"
    [] d = 4 -> "4" [] d = 5 -> "5" [] d = 6 -> "6" [] d = 7 -> "7"
    [] d = 8 -> "8" [] d = 9 -> "9"

RECURSIVE HexOf(_)
HexOf(data) ==
  IF data = <<>> THEN <<>>
  ELSE <<Digit((Head(data) \div 10) % 10), Digit(Head(data) % 10)>>
         \o HexOf(Tail(data))

\* _sha256(path).hexdigest(): lower-case, one digest per content (the model
\* takes SHA-256 to be collision-free on the contents it holds)
_sha256(data) == <<"a", "b">> \o HexOf(data)

\* the same digest as a publisher may write it: upper case, padded
UpperPadded(h) ==
  <<" ">> \o [i \in 1..Len(h) |->
                CASE h[i] = "a" -> "A" [] h[i] = "b" -> "B" [] OTHER -> h[i]]

\* str(version) of build v
VerStr(v) == <<Digit(v)>>

(***************************************************************************)
(* The manifest share                                                      *)
(***************************************************************************)

\* the files of the share, by url
UrlApp(v) == <<"u", Digit(v)>>
UrlEvil == <<"u", "x">>
UrlPbi == <<"p">>
UrlPbiEvil == <<"p", "x">>

ShareHas(url) ==
  url \in {UrlApp(v) : v \in Builds} \cup {UrlEvil, UrlPbi, UrlPbiEvil}

ShareFile(url) ==
  CASE url = UrlEvil -> EvilBytes
    [] url = UrlPbi -> PbiArt
    [] url = UrlPbiEvil -> EvilPbi
    [] OTHER -> Art(CHOOSE v \in Builds : url = UrlApp(v))

\* latest.json as a JSON object; has_version / has_url: the key is present
Manifest(hv, ver, hu, url, sha, purl, psha) ==
  [has_version |-> hv, version |-> ver, has_url |-> hu, url |-> url,
   sha256 |-> sha, pbi_tools_url |-> purl, pbi_tools_sha256 |-> psha,
   \* keys that launcher.py reads nowhere
   launcher_url |-> <<>>, launcher_sha256 |-> <<>>]

\* the launcher binary that is running, and the one on the share
SelfBytes == [i \in 1..ArtLen |-> 80 + i]
LauncherArt == [i \in 1..ArtLen |-> 70 + i]
UrlLauncher == <<"l">>

\* a well-published manifest of build v
GoodManifest(v) ==
  [Manifest(TRUE, VerStr(v), TRUE, UrlApp(v), _sha256(Art(v)),
            UrlPbi, _sha256(PbiArt))
     EXCEPT !.launcher_url = UrlLauncher,
            !.launcher_sha256 = _sha256(LauncherArt)]

\* the manifests the share may hold when a run starts
Manifests ==
  { GoodManifest(2),
    \* padded version, upper-case padded hash, no auxiliary tool
    Manifest(TRUE, <<" ">> \o VerStr(2), TRUE, UrlApp(2) \o <<" ">>,
             UpperPadded(_sha256(Art(2))), <<>>, <<>>),
    \* the files behind the urls are not the ones the hashes were made of
    Manifest(TRUE, VerStr(2), TRUE, UrlEvil, _sha256(Art(2)),
             UrlPbiEvil, _sha256(PbiArt)),
    \* no hashes declared
    Manifest(TRUE, VerStr(2), TRUE, UrlApp(2), <<>>, UrlPbi, <<>>),
    \* no version key
    Manifest(FALSE, <<>>, TRUE, UrlApp(2), <<>>, UrlPbi, _sha256(PbiArt)),
    \* an empty version
    Manifest(TRUE, <<>>, TRUE, UrlApp(2), _sha256(Art(2)), <<>>, <<>>),
    \* no url key
    Manifest(TRUE, VerStr(2), FALSE, <<>>, <<>>, <<>>, <<>>) }

\* what _fetch_latest_info returns: None (ok = FALSE) or the manifest
NoInfo == [ok |-> FALSE, m |-> Manifest(FALSE, <<>>, FALSE, <<>>, <<>>, <<>>, <<>>)]
Info(m) == [ok |-> TRUE, m |-> m]

(***************************************************************************)
(* The runtime descriptor and the running instance                         *)
(***************************************************************************)

\* runtime.json: present (a non-empty JSON object) or not; port_ok / pid_ok:
\* int() accepts the field
Runtime(token, pid, portok, pidok) ==
  [present |-> TRUE, token |-> token, pid |-> pid,
   port_ok |-> portok, pid_ok |-> pidok]

NoRuntime == [present |-> FALSE, token |-> <<>>, pid |-> 0,
              port_ok |-> TRUE, pid_ok |-> TRUE]

Runtimes ==
  { NoRuntime,
    Runtime(<<"t">>, 7, TRUE, TRUE),
    Runtime(<<"t">>, 0, TRUE, TRUE),
    Runtime(<<"t">>, -1, TRUE, TRUE),
    Runtime(<<>>, 7, TRUE, TRUE),
    Runtime(<<" ">>, 7, TRUE, TRUE),
    Runtime(<<"t">>, 7, FALSE, TRUE),
    Runtime(<<"t">>, 7, TRUE, FALSE) }

\* what _http_get_json returns: None ("none"), a falsy JSON value ("falsy",
\* such as {}), a JSON object ("dict") or another truthy value ("nondict")
Resp(kind, ok, ver) == [kind |-> kind, ok |-> ok, version |-> ver]

PingVersions == {<<>>, VerStr(1), VerStr(2), VerStr(2) \o <<" ">>}

Responses ==
  { Resp("none", FALSE, <<>>), Resp("falsy", FALSE, <<>>),
    Resp("nondict", FALSE, <<>>), Resp("dict", FALSE, VerStr(1)) }
  \cup { Resp("dict", TRUE, v) : v \in PingVersions }

\* Python truthiness of a response
Truthy(resp) == resp.kind \in {"dict", "nondict"}

(***************************************************************************)
(* Paths                                                                   *)
(***************************************************************************)

\* str(app_dir): the install directory
AppDir == <<"C", ":", "\\", "M">>

\* what Get-CimInstance may report as the pid's ExecutablePath ("" when the
\* pid is unknown or the query fails)
ExePaths ==
  { <<>>,
    AppDir \o UiSuffix,
    Lower(AppDir) \o <<"/">> \o APP_EXE_BASENAME,
    AppDir \o <<"\\", "s">> \o UiSuffix,
    AppDir \o <<"2">> \o UiSuffix,
    <<"C", ":", "\\", "W">> \o UiSuffix,
    AppDir \o <<"\\", "x", ".", "e", "x", "e">>,
    AppDir \o <<"\\", "x">> \o APP_EXE_BASENAME }

(***************************************************************************)
(* Pure functions of launcher.py                                           *)
(***************************************************************************)

\* _pid_looks_like_our_ui(pid, app_dir), exe being what _pid_exe_path_windows
\* resolved the pid to ("" for None)
_pid_looks_like_our_ui(pid, exe) ==
  IF os_name # "nt" \/ pid <= 0 THEN FALSE
  ELSE IF exe = <<>> THEN FALSE
  ELSE LET exe_l == ReplaceSlash(Lower(exe))
           app_l == ReplaceSlash(Lower(AppDir))
       IN  StartsWith(exe_l, app_l) /\ EndsWith(exe_l, UiSuffix)

\* _read_local_version(app_dir), given version.txt
_read_local_version(ver_file) ==
  IF ~ver_file.exists THEN <<>> ELSE Strip(ver_file.data)

\* the decimal digits, and the number a digit stands for
DigitChars == {"0", "1", "2", "3", "4", "5", "6", "7", "8", "9"}

DigitVal(c) ==
  CASE c = "0" -> 0 [] c = "1" -> 1 [] c = "2" -> 2 [] c = "3" -> 3
    [] c = "4" -> 4 [] c = "5" -> 5 [] c = "6" -> 6 [] c = "7" -> 7
    [] c = "8" -> 8 [] c = "9" -> 9

\* v.split("."): the segments between the dots, empty ones included
RECURSIVE SplitDot(_)
SplitDot(v) ==
  IF v = <<>> THEN << <<>> >>
  ELSE LET rest == SplitDot(Tail(v))
       IN  IF Head(v) = "." THEN << <<>> >> \o rest
           ELSE << <<Head(v)>> \o Head(rest) >> \o Tail(rest)

\* p.isdigit(): not empty, digits only
isdigit(p) == p # <<>> /\ \A k \in 1..Len(p) : p[k] \in DigitChars

\* a comparator that reads the first digit of a segment only
IntOf_FirstDigit(p) == DigitVal(p[1])

\* int(p) of a string of digits
RECURSIVE IntOf(_)
IntOf(p) ==
  IF p = <<>> THEN 0
  ELSE 10 * IntOf(SubSeq(p, 1, Len(p) - 1)) + DigitVal(p[Len(p)])

\* line 111: [int(p) for p in v.split(".") if p.isdigit()]
parse(v) ==
  LET ps == SelectSeq(SplitDot(v), isdigit)
  IN  [k \in 1..Len(ps) |-> IntOf(ps[k])]

\* a > b on lists of integers: the first difference decides, and a list is
\* greater than each of its proper prefixes
RECURSIVE ListGreater(_, _)
ListGreater(a, b) ==
  IF a = <<>> THEN FALSE
  ELSE IF b = <<>> THEN TRUE
  ELSE IF Head(a) # Head(b) THEN Head(a) > Head(b)
  ELSE ListGreater(Tail(a), Tail(b))

\* a comparator with >= for >
_version_newer_OrEqual(v1, v2) == ~ListGreater(parse(v2), parse(v1))

\* lines 109-112
_version_newer(v1, v2) == ListGreater(parse(v1), parse(v2))

\* version strings as sequences of characters
V_1_2 == <<"1", ".", "2">>
V_1_2_0 == <<"1", ".", "2", ".", "0">>
V_1_02 == <<"1", ".", "0", "2">>
V_1_10 == <<"1", ".", "1", "0">>
V_2_0_0 == <<"2", ".", "0", ".", "0">>
V_1_9_9 == <<"1", ".", "9", ".", "9">>

\* the version strings _version_newer is called with: the ones above, some
\* with a segment that is not a number, and every string of at most
\* MaxVerLen characters of VerAlphabet
VerAlphabet == {"0", "1", "2", "."}

Versions ==
  {V_1_2, V_1_2_0, V_1_02, V_1_10, V_2_0_0, V_1_9_9,
   <<"1", ".", "b", ".", "2">>, <<"v", "1", ".", "2">>, <<"1", ".", ".", "2", "0">>}
    \cup UNION {[1..n -> VerAlphabet] : n \in 0..MaxVerLen}

(***************************************************************************)
(* State                                                                   *)
(***************************************************************************)

VARIABLES
  pc,        \* pc[r]: where run r of main() is
  loc,       \* loc[r]: the local variables of run r
  hist,      \* hist[r]: what run r has done so far (history)
  exe,       \* app_dir / validation-ui.exe
  marker,    \* app_dir / version.txt
  pbi,       \* app_dir / pbi-tools.exe
  backups,   \* the builds v with a app_dir / validation-ui-v.exe
  newf,      \* app_dir / validation-ui.exe.new
  handles,   \* the runs holding validation-ui.exe.new open for writing
  tmpdirs,   \* the validation_update_* directories of _download
  share,     \* latest.json on the share
  published, \* how often the publisher has replaced it
  dir0       \* the install directory when the runs started

vars == <<pc, loc, hist, exe, marker, pbi, backups, newf, handles, tmpdirs,
          share, published, dir0>>

\* the install directory as one value
InstallDir == [exe |-> exe, marker |-> marker, pbi |-> pbi,
               backups |-> backups, newf |-> newf]

NoResp == Resp("none", FALSE, <<>>)

\* i, j: the iterations the two
\* wait loops have made (both loops count in the one variable _, so the
\* second loop overwrites the first's count); broke: the graceful loop ended
\* by its break; pid_exe: what the pid resolved to inside
\* _pid_looks_like_our_ui
Loc0 ==
  [latest_version |-> <<>>, rt |-> NoRuntime,
   token |-> <<>>,
   i |-> 0, j |-> 0, broke |-> FALSE, killed |-> FALSE, pid |-> 0,
   pid_exe |-> <<>>,
   remote_version |-> <<>>, url |-> <<>>, expected_sha |-> <<>>,
   downloaded |-> <<>>, off |-> 0,
   \* _version_newer: its arguments
   v1 |-> <<>>, v2 |-> <<>>]

\* last_alive: how the latest liveness probe of the run was answered ("ok":
\* a JSON object with ok true, "truthy": another truthy value, "falsy": None
\* or a falsy value, "": no probe yet); running_version: the version the
\* first probe reported with ok true
Hist0 ==
  [fetches |-> 0, downloads |-> 0, shutdowns |-> 0, kills |-> 0,
   running_version |-> <<>>, last_alive |-> "",
   installer_called |-> FALSE, spawned |-> NoFile, browser |-> FALSE,
   error |-> "", exit_code |-> -1,
   \* ensure_latest: how it returned, the version and hash the manifest
   \* declared, the bytes _download fetched
   el_result |-> "", el_version |-> <<>>, el_declared |-> <<>>,
   el_downloaded |-> NoFile,
   \* ensure_pbi_tools: the same
   pbi_result |-> "", pbi_declared |-> <<>>, pbi_downloaded |-> NoFile,
   \* _version_newer: what it returned
   newer |-> FALSE,
   \* the manifest main() read has launcher_url and a launcher_sha256 that
   \* is not the hash of the running launcher
   launcher_advertised |-> FALSE,
   \* latest_version as main() read it at line 173
   latest_version |-> <<>>]

\* the install directories a run may find: nothing installed, or build v
\* installed with its marker, with or without the auxiliary tool and an old
\* versioned copy
InitDirs ==
  { [exe |-> e, marker |-> m, pbi |-> p, backups |-> b, newf |-> NoFile] :
      e \in {NoFile} \cup {File(Art(v)) : v \in 1..2},
      m \in {NoFile} \cup {File(VerStr(v)) : v \in 1..2},
      p \in {NoFile, File(PbiArt)},
      b \in {{}, {1}} }

InitDir(d) ==
  /\ d.exe.exists = d.marker.exists
  /\ d.exe.exists => VerStr(BuildOf(d.exe.data)) = d.marker.data
  /\ d.backups # {} => d.exe.exists /\ BuildOf(d.exe.data) = 1

\* the runs in runs are at label, on an install directory a previous run
\* left
InitRuns(runs, label) ==
  /\ pc = [r \in runs |-> label]
  /\ loc = [r \in runs |-> Loc0]
  /\ hist = [r \in runs |-> Hist0]
  /\ \E d \in InitDirs :
       /\ InitDir(d)
       /\ exe = d.exe /\ marker = d.marker /\ pbi = d.pbi
       /\ backups = d.backups /\ newf = d.newf
       /\ dir0 = d
  /\ handles = {}
  /\ tmpdirs = {}
  /\ share \in Manifests
  /\ published = 0

\* one run of main()
Init == InitRuns({1}, "start")

\* two runs (a double click), both about to call ensure_latest
InitConc == InitRuns({1, 2}, "el_start")

(***************************************************************************)
(* Helpers of the actions                                                  *)
(***************************************************************************)

Goto(r, l) == pc' = [pc EXCEPT ![r] = l]

\* control leaves a part of the run (the coordinator, ensure_latest,
\* ensure_pbi_tools) for l: the locals of that part are dead from here on
Return(r, l) ==
  /\ pc' = [pc EXCEPT ![r] = l]
  /\ loc' = [loc EXCEPT ![r] = Loc0]

\* sys.exit(code)
Exit(r, h, code) ==
  /\ pc' = [pc EXCEPT ![r] = "exit"]
  /\ hist' = [hist EXCEPT ![r] = [h EXCEPT !.exit_code = code]]

\* an uncaught exception: the interpreter prints the traceback and exits 1
Crash(r, h) ==
  /\ pc' = [pc EXCEPT ![r] = "crashed"]
  /\ hist' = [hist EXCEPT ![r] = [h EXCEPT !.exit_code = 1]]

\* _fetch_latest_info(): None on any failure, else the manifest as it is now
FetchResults == {NoInfo, Info(share)}

\* one liveness probe answered resp
Alive(resp) ==
  IF resp.kind = "dict" /\ resp.ok THEN "ok"
  ELSE IF Truthy(resp) THEN "truthy" ELSE "falsy"

Probed(h, resp) == [h EXCEPT !.last_alive = Alive(resp)]

FsUnchanged == UNCHANGED <<exe, marker, pbi, backups, newf, handles, tmpdirs>>
EnvUnchanged == UNCHANGED <<share, published, dir0>>

(***************************************************************************)
(* main(): the instance coordinator, lines 169-209                         *)
(***************************************************************************)

\* the manifest has launcher_url and launcher_sha256, and the hash is not the
\* running launcher's
AdvertisesLauncher(m) ==
  /\ Strip(m.launcher_url) # <<>>
  /\ Strip(m.launcher_sha256) # <<>>
  /\ Lower(Strip(m.launcher_sha256)) # _sha256(SelfBytes)

\* lines 170-173: mkdir, info = _fetch_latest_info() or {}, latest_version;
\* launcher_advertised is history, main() does not look at those keys
Start(r) ==
  /\ pc[r] = "start"
  /\ \E info \in FetchResults :
       /\ loc' = [loc EXCEPT ![r].latest_version =
                                IF info.ok THEN Strip(info.m.version)
                                ELSE <<>>]
       /\ hist' = [hist EXCEPT ![r].fetches = @ + 1,
                               ![r].launcher_advertised =
                                  info.ok /\ AdvertisesLauncher(info.m),
                               ![r].latest_version =
                                  IF info.ok THEN Strip(info.m.version)
                                  ELSE <<>>]
  /\ Goto(r, "read_runtime")
  /\ FsUnchanged /\ EnvUnchanged

\* lines 174-179: rt = _read_runtime(app_dir); host, port, token
ReadRuntime(r) ==
  /\ pc[r] = "read_runtime"
  /\ \E rt \in Runtimes :
       IF ~rt.present
       THEN Return(r, "el_start") /\ UNCHANGED hist
       ELSE IF ~rt.port_ok
       THEN Crash(r, hist[r]) /\ UNCHANGED loc        \* int(): ValueError
       ELSE /\ loc' = [loc EXCEPT ![r].rt = rt,
                                  ![r].token = Strip(rt.token)]
            /\ Goto(r, "ping1")
            /\ UNCHANGED hist
  /\ FsUnchanged /\ EnvUnchanged

\* a reuse decision that does not compare the versions
ReuseDecision_AnyVersion(latest_version, running_version) ==
  latest_version # <<>>

\* line 183: the running instance is the latest build
ReuseDecision(latest_version, running_version) ==
  latest_version # <<>> /\ running_version = latest_version

\* lines 180-186: the first liveness probe and the reuse decision
Ping1(r) ==
  /\ pc[r] = "ping1"
  /\ \E ping \in Responses :
       LET h == Probed(hist[r], ping)
           running_version == Strip(ping.version)
           latest_version == loc[r].latest_version
       IN  IF ping.kind = "nondict"
           THEN Crash(r, h) /\ UNCHANGED loc      \* ping.get: AttributeError
           ELSE IF Truthy(ping) /\ ping.ok
           THEN LET h2 == [h EXCEPT !.running_version = running_version]
                IN  IF ReuseDecision(latest_version, running_version)
                    THEN /\ Exit(r, [h2 EXCEPT !.browser = TRUE], 0)
                         /\ UNCHANGED loc
                    ELSE /\ hist' = [hist EXCEPT ![r] = h2]
                         /\ IF loc[r].token # <<>>
                            THEN Goto(r, "shutdown") /\ UNCHANGED loc
                            ELSE Return(r, "el_start")
           ELSE /\ hist' = [hist EXCEPT ![r] = h]
                /\ Return(r, "el_start")
  /\ FsUnchanged /\ EnvUnchanged

\* line 187: _http_post(running_url + "/shutdown", token); the result is dropped
Shutdown(r) ==
  /\ pc[r] = "shutdown"
  /\ hist' = [hist EXCEPT ![r].shutdowns = @ + 1]
  /\ loc' = [loc EXCEPT ![r].i = 0]
  /\ Goto(r, "wait1")
  /\ FsUnchanged /\ EnvUnchanged

\* a graceful loop without its cap: it polls until a probe fails
Wait1_NoCap(r) ==
  /\ pc[r] = "wait1"
  /\ \E ping \in Responses :
       /\ hist' = [hist EXCEPT ![r] = Probed(@, ping)]
       /\ loc' = [loc EXCEPT ![r].i = @ + 1, ![r].broke = ~Truthy(ping)]
       /\ IF ~Truthy(ping) THEN Goto(r, "check1") ELSE UNCHANGED pc
  /\ FsUnchanged /\ EnvUnchanged

\* lines 188-191: one iteration of for _ in range(20): sleep, probe, break
Wait1(r) ==
  /\ pc[r] = "wait1"
  /\ loc[r].i < GracefulPolls
  /\ \E ping \in Responses :
       /\ hist' = [hist EXCEPT ![r] = Probed(@, ping)]
       /\ loc' = [loc EXCEPT ![r].i = @ + 1, ![r].broke = ~Truthy(ping)]
       /\ IF ~Truthy(ping) \/ loc[r].i + 1 = GracefulPolls
          THEN Goto(r, "check1")
          ELSE UNCHANGED pc
  /\ FsUnchanged /\ EnvUnchanged

\* a coordinator that escalates whatever the probe after the graceful loop says
Check1_AlwaysEscalates(r) ==
  /\ pc[r] = "check1"
  /\ \E ping \in Responses :
       hist' = [hist EXCEPT ![r] = Probed(@, ping)]
  /\ Goto(r, "escalate") /\ UNCHANGED loc
  /\ FsUnchanged /\ EnvUnchanged

\* line 192: the probe after the graceful loop
Check1(r) ==
  /\ pc[r] = "check1"
  /\ \E ping \in Responses :
       /\ hist' = [hist EXCEPT ![r] = Probed(@, ping)]
       /\ IF Truthy(ping)
          THEN Goto(r, "escalate") /\ UNCHANGED loc
          ELSE Return(r, "el_start")
  /\ FsUnchanged /\ EnvUnchanged

\* lines 193-195: pid = int(rt.get("pid") or 0); the kill guard
Escalate(r) ==
  /\ pc[r] = "escalate"
  /\ LET rt == loc[r].rt
     IN  IF ~rt.pid_ok
         THEN Crash(r, hist[r]) /\ UNCHANGED loc  \* int(): ValueError
         ELSE /\ UNCHANGED hist
              /\ IF rt.pid # 0 /\ os_name = "nt" /\ rt.pid > 0
                 THEN \E path \in ExePaths :
                        IF _pid_looks_like_our_ui(rt.pid, path)
                        THEN /\ loc' = [loc EXCEPT ![r].pid = rt.pid,
                                                   ![r].killed = FALSE,
                                                   ![r].pid_exe = path]
                             /\ Goto(r, "kill")
                        ELSE /\ loc' = [loc EXCEPT ![r].pid = rt.pid,
                                                   ![r].killed = FALSE]
                             /\ Goto(r, "check2")
                 ELSE /\ loc' = [loc EXCEPT ![r].pid = rt.pid,
                                            ![r].killed = FALSE]
                      /\ Goto(r, "check2")
  /\ FsUnchanged /\ EnvUnchanged

\* a coordinator that polls after taskkill whatever taskkill reported
Kill_AlwaysPolls(r) ==
  /\ pc[r] = "kill"
  /\ \E killed \in BOOLEAN :
       loc' = [loc EXCEPT ![r].killed = killed, ![r].j = 0,
                          ![r].pid_exe = <<>>]
  /\ Goto(r, "wait2")
  /\ hist' = [hist EXCEPT ![r].kills = @ + 1]
  /\ FsUnchanged /\ EnvUnchanged

\* lines 196-197: killed = _kill_pid_windows(pid)
Kill(r) ==
  /\ pc[r] = "kill"
  /\ \E killed \in BOOLEAN :
       /\ loc' = [loc EXCEPT ![r].killed = killed, ![r].j = 0,
                             ![r].pid_exe = <<>>]
       /\ IF killed THEN Goto(r, "wait2") ELSE Goto(r, "check2")
  /\ hist' = [hist EXCEPT ![r].kills = @ + 1]
  /\ FsUnchanged /\ EnvUnchanged

\* lines 198-201: one iteration of for _ in range(25): sleep, probe, break
Wait2(r) ==
  /\ pc[r] = "wait2"
  /\ loc[r].j < KillPolls
  /\ \E ping \in Responses :
       /\ hist' = [hist EXCEPT ![r] = Probed(@, ping)]
       /\ loc' = [loc EXCEPT ![r].j = @ + 1, ![r].i = 0]
       /\ IF ~Truthy(ping) \/ loc[r].j + 1 = KillPolls
          THEN Goto(r, "check2")
          ELSE UNCHANGED pc
  /\ FsUnchanged /\ EnvUnchanged

\* a coordinator that goes on to install whatever the last probe says
Check2_Proceeds(r) ==
  /\ pc[r] = "check2"
  /\ \E ping \in Responses :
       hist' = [hist EXCEPT ![r] = Probed(@, ping)]
  /\ Return(r, "el_start")
  /\ FsUnchanged /\ EnvUnchanged

\* lines 202-209: the last probe; showerror and sys.exit(1) when it answers
Check2(r) ==
  /\ pc[r] = "check2"
  /\ \E ping \in Responses :
       LET h == Probed(hist[r], ping)
       IN  IF Truthy(ping)
           THEN Exit(r, [h EXCEPT !.error = "blocked"], 1) /\ UNCHANGED loc
           ELSE hist' = [hist EXCEPT ![r] = h] /\ Return(r, "el_start")
  /\ FsUnchanged /\ EnvUnchanged

(***************************************************************************)
(* File operations                                                         *)
(***************************************************************************)

\* the bytes of a file after chunk c is written at position pos (1-based);
\* a write past the end leaves a hole of zeros
WriteAt(data, pos, c) ==
  IF pos <= Len(data) THEN [data EXCEPT ![pos] = c]
  ELSE data \o [k \in 1..(pos - Len(data) - 1) |-> 0] \o <<c>>

\* _download(path_str), lines 60-65: mkdtemp, then copy the source into it.
\* ok = FALSE: read_bytes or write_bytes raised, the directory stays behind.
DownloadResults(url) ==
  {[ok |-> FALSE, data |-> <<>>]}
    \cup (IF ShareHas(url)
          THEN {[ok |-> TRUE, data |-> ShareFile(url)]}
          ELSE {})

\* the directory the n-th _download of run r made, holding data
TmpDir(r, n, d) == [run |-> r, n |-> n, data |-> d]

(***************************************************************************)
(* ensure_latest(app_dir), lines 113-140                                   *)
(***************************************************************************)

\* a skip test with the comparison the wrong way round
UpToDate_Inverted(target, ver_file, remote_version) ==
  target.exists /\ _read_local_version(ver_file) # remote_version

\* line 122: nothing to do
UpToDate(target, ver_file, remote_version) ==
  target.exists /\ _read_local_version(ver_file) = remote_version

\* a hash check that compares the lengths of the two digests only
HashMismatch_LengthOnly(expected_sha, downloaded) ==
  expected_sha # <<>> /\ Len(_sha256(downloaded)) # Len(expected_sha)

\* line 128 (and lines 159-161): a hash is declared and the download's differs
HashMismatch(expected_sha, downloaded) ==
  expected_sha # <<>> /\ Lower(_sha256(downloaded)) # expected_sha

\* return target: back in main() with how ensure_latest ended
ElReturn(r, h, result) ==
  /\ Return(r, "pbi_start")
  /\ hist' = [hist EXCEPT ![r] = [h EXCEPT !.el_result = result]]

\* lines 114-123: fetch the manifest, decide whether there is anything to do
ElStart(r) ==
  /\ pc[r] = "el_start"
  /\ \E info \in FetchResults :
       LET remote_version == Strip(info.m.version)
           url == Strip(info.m.url)
           expected_sha == Lower(Strip(info.m.sha256))
           h == [hist[r] EXCEPT !.fetches = @ + 1, !.installer_called = TRUE]
       IN  IF ~info.ok \/ ~info.m.has_version \/ ~info.m.has_url
           THEN ElReturn(r, h, "no_info")
           ELSE IF UpToDate(exe, marker, remote_version)
           THEN ElReturn(r, h, "up_to_date")
           ELSE /\ loc' = [loc EXCEPT ![r] =
                             [Loc0 EXCEPT !.remote_version = remote_version,
                                          !.url = url,
                                          !.expected_sha = expected_sha]]
                /\ hist' = [hist EXCEPT ![r] =
                              [h EXCEPT !.el_version = remote_version,
                                        !.el_declared = expected_sha]]
                /\ Goto(r, "el_download")
  /\ FsUnchanged /\ EnvUnchanged

\* lines 124-127: downloaded = _download(url)
ElDownload(r) ==
  /\ pc[r] = "el_download"
  /\ \E d \in DownloadResults(loc[r].url) :
       LET h == [hist[r] EXCEPT !.downloads = @ + 1]
       IN  /\ tmpdirs' = tmpdirs \cup {TmpDir(r, h.downloads, d.data)}
           /\ IF d.ok
              THEN /\ loc' = [loc EXCEPT ![r].downloaded = d.data]
                   /\ hist' = [hist EXCEPT ![r] =
                                 [h EXCEPT !.el_downloaded = File(d.data)]]
                   /\ Goto(r, "el_hash")
              ELSE ElReturn(r, h, "download_failed")
  /\ UNCHANGED <<exe, marker, pbi, backups, newf, handles>>
  /\ EnvUnchanged

\* lines 128-129: the hash check
ElHash(r) ==
  /\ pc[r] = "el_hash"
  /\ IF HashMismatch(loc[r].expected_sha, loc[r].downloaded)
     THEN ElReturn(r, hist[r], "hash_mismatch")
     ELSE Goto(r, "el_open") /\ UNCHANGED <<loc, hist>>
  /\ FsUnchanged /\ EnvUnchanged

\* lines 131-132: tmp.write_bytes(...) opens validation-ui.exe.new for
\* writing, which creates or truncates it; open() shares the file for writing
ElOpen(r) ==
  /\ pc[r] = "el_open"
  /\ \/ /\ newf' = File(<<>>)
        /\ handles' = handles \cup {r}
        /\ loc' = [loc EXCEPT ![r].off = 0]
        /\ Goto(r, "el_write")
        /\ UNCHANGED hist
     \/ /\ ElReturn(r, hist[r], "write_failed")        \* read or open raised
        /\ UNCHANGED <<newf, handles>>
  /\ UNCHANGED <<exe, marker, pbi, backups, tmpdirs>>
  /\ EnvUnchanged

\* line 132: write_bytes writes the next chunk at this handle's offset, and
\* closes the file after the last one
ElWrite(r) ==
  /\ pc[r] = "el_write"
  /\ \/ /\ newf' = File(WriteAt(newf.data, loc[r].off + 1,
                                loc[r].downloaded[loc[r].off + 1]))
        /\ IF loc[r].off + 1 = Len(loc[r].downloaded)
           THEN /\ handles' = handles \ {r}
                /\ Goto(r, "el_replace")
           ELSE UNCHANGED <<handles, pc>>
        /\ loc' = [loc EXCEPT ![r].off = @ + 1]
        /\ UNCHANGED hist
     \/ /\ handles' = handles \ {r}                    \* the write raised
        /\ ElReturn(r, hist[r], "write_failed")
        /\ UNCHANGED newf
  /\ UNCHANGED <<exe, marker, pbi, backups, tmpdirs>>
  /\ EnvUnchanged

\* line 133: os.replace(tmp, target).  On Windows it fails while another
\* process holds the source open (open() does not share it for deletion),
\* when the source is gone, or when the target is in use.
ElReplace(r) ==
  /\ pc[r] = "el_replace"
  /\ \/ /\ newf.exists /\ handles = {}
        /\ exe' = newf
        /\ newf' = NoFile
        /\ Goto(r, "el_marker")
        /\ UNCHANGED <<loc, hist>>
     \/ /\ ElReturn(r, hist[r], "replace_failed")
        /\ UNCHANGED <<exe, newf>>
  /\ UNCHANGED <<marker, pbi, backups, handles, tmpdirs>>
  /\ EnvUnchanged

\* an installer that leaves version.txt as it is
ElMarker_NotWritten(r) ==
  /\ pc[r] = "el_marker"
  /\ Goto(r, "el_backups")
  /\ UNCHANGED <<loc, hist, marker>>
  /\ UNCHANGED <<exe, pbi, backups, newf, handles, tmpdirs>>
  /\ EnvUnchanged

\* line 134: _write_local_version(app_dir, remote_version), lines 56-59;
\* write_text truncates version.txt and then writes it
ElMarker(r) ==
  /\ pc[r] = "el_marker"
  /\ \/ /\ marker' = File(Strip(loc[r].remote_version))
        /\ Goto(r, "el_backups")
        /\ UNCHANGED <<loc, hist>>
     \/ /\ ElReturn(r, hist[r], "marker_failed")       \* open raised
        /\ UNCHANGED marker
     \/ /\ marker' = File(<<>>)                        \* the write raised
        /\ ElReturn(r, hist[r], "marker_failed")
  /\ UNCHANGED <<exe, pbi, backups, newf, handles, tmpdirs>>
  /\ EnvUnchanged

\* lines 135-140: unlink every validation-ui-*.exe; a failing unlink is
\* passed over
ElBackups(r) ==
  /\ pc[r] = "el_backups"
  /\ \E left \in SUBSET backups : backups' = left
  /\ ElReturn(r, hist[r], "installed")
  /\ UNCHANGED <<exe, marker, pbi, newf, handles, tmpdirs>>
  /\ EnvUnchanged

(***************************************************************************)
(* ensure_pbi_tools(app_dir), lines 144-168                                *)
(***************************************************************************)

\* return: back in main() with how ensure_pbi_tools ended
PbiReturn(r, h, result) ==
  /\ Return(r, "launch")
  /\ hist' = [hist EXCEPT ![r] = [h EXCEPT !.pbi_result = result]]

\* lines 145-153
PbiStart(r) ==
  /\ pc[r] = "pbi_start"
  /\ IF pbi.exists
     THEN PbiReturn(r, hist[r], "present")
     ELSE \E info \in FetchResults :
            LET url == Strip(info.m.pbi_tools_url)
                expected_sha == Lower(Strip(info.m.pbi_tools_sha256))
                h == [hist[r] EXCEPT !.fetches = @ + 1]
            IN  IF ~info.ok \/ url = <<>>
                THEN PbiReturn(r, h, "no_info")
                ELSE /\ loc' = [loc EXCEPT ![r] =
                                  [Loc0 EXCEPT !.url = url,
                                               !.expected_sha = expected_sha]]
                     /\ hist' = [hist EXCEPT ![r] =
                                   [h EXCEPT !.pbi_declared = expected_sha]]
                     /\ Goto(r, "pbi_download")
  /\ FsUnchanged /\ EnvUnchanged

\* lines 154-157
PbiDownload(r) ==
  /\ pc[r] = "pbi_download"
  /\ \E d \in DownloadResults(loc[r].url) :
       LET h == [hist[r] EXCEPT !.downloads = @ + 1]
       IN  /\ tmpdirs' = tmpdirs \cup {TmpDir(r, h.downloads, d.data)}
           /\ IF d.ok
              THEN /\ loc' = [loc EXCEPT ![r].downloaded = d.data]
                   /\ hist' = [hist EXCEPT ![r] =
                                 [h EXCEPT !.pbi_downloaded = File(d.data)]]
                   /\ Goto(r, "pbi_hash")
              ELSE PbiReturn(r, h, "download_failed")
  /\ UNCHANGED <<exe, marker, pbi, backups, newf, handles>>
  /\ EnvUnchanged

\* lines 158-162
PbiHash(r) ==
  /\ pc[r] = "pbi_hash"
  /\ IF HashMismatch(loc[r].expected_sha, loc[r].downloaded)
     THEN PbiReturn(r, hist[r], "hash_mismatch")
     ELSE Goto(r, "pbi_open") /\ UNCHANGED <<loc, hist>>
  /\ FsUnchanged /\ EnvUnchanged

\* lines 164-166: unlink the target if it is there, then open it for writing
PbiOpen(r) ==
  /\ pc[r] = "pbi_open"
  /\ \/ /\ pbi' = File(<<>>)
        /\ loc' = [loc EXCEPT ![r].off = 0]
        /\ Goto(r, "pbi_write")
        /\ UNCHANGED hist
     \/ /\ pbi' = NoFile                       \* unlinked, then open raised
        /\ PbiReturn(r, hist[r], "write_failed")
     \/ /\ UNCHANGED pbi                       \* unlink or read raised
        /\ PbiReturn(r, hist[r], "write_failed")
  /\ UNCHANGED <<exe, marker, backups, newf, handles, tmpdirs>>
  /\ EnvUnchanged

\* lines 166-168: target.write_bytes writes pbi-tools.exe itself, chunk by
\* chunk
PbiWrite(r) ==
  /\ pc[r] = "pbi_write"
  /\ \/ /\ pbi' = File(WriteAt(pbi.data, loc[r].off + 1,
                               loc[r].downloaded[loc[r].off + 1]))
        /\ IF loc[r].off + 1 = Len(loc[r].downloaded)
           THEN PbiReturn(r, hist[r], "installed")
           ELSE /\ loc' = [loc EXCEPT ![r].off = @ + 1]
                /\ UNCHANGED <<pc, hist>>
     \/ /\ UNCHANGED pbi                               \* the write raised
        /\ PbiReturn(r, hist[r], "write_failed")
  /\ UNCHANGED <<exe, marker, backups, newf, handles, tmpdirs>>
  /\ EnvUnchanged

(***************************************************************************)
(* main(): the process launcher, lines 212-220                             *)
(***************************************************************************)

\* lines 212-218: no binary at exe_path: showerror, sys.exit(1)
LaunchCheck(r) ==
  /\ pc[r] = "launch"
  /\ IF ~exe.exists
     THEN Exit(r, [hist[r] EXCEPT !.error = "no_binary"], 1)
     ELSE Goto(r, "spawn") /\ UNCHANGED hist
  /\ UNCHANGED loc
  /\ FsUnchanged /\ EnvUnchanged

\* lines 219-220: subprocess.Popen([exe_path] + argv), sys.exit(0); Popen
\* raises OSError when the file cannot be started
Spawn(r) ==
  /\ pc[r] = "spawn"
  /\ \/ /\ exe.exists
        /\ Exit(r, [hist[r] EXCEPT !.spawned = exe], 0)
     \/ Crash(r, hist[r])
  /\ UNCHANGED loc
  /\ FsUnchanged /\ EnvUnchanged

(***************************************************************************)
(* The environment                                                         *)
(***************************************************************************)

\* the publisher replaces latest.json with the manifest of a newer build
\* (latest.json is read by _fetch_latest_info only, so a replacement is
\* taken to happen right before a run reads it)
Publish ==
  /\ published < MaxPublish
  /\ \E r \in DOMAIN pc : pc[r] \in {"start", "el_start", "pbi_start"}
  /\ share' = IF share = GoodManifest(3) THEN GoodManifest(2)
              ELSE GoodManifest(3)
  /\ published' = published + 1
  /\ UNCHANGED <<pc, loc, hist, exe, marker, pbi, backups, newf, handles,
                 tmpdirs, dir0>>

(***************************************************************************)
(* Specifications                                                          *)
(***************************************************************************)

Next ==
  \/ \E r \in DOMAIN pc : Start(r)
  \/ \E r \in DOMAIN pc : ReadRuntime(r)
  \/ \E r \in DOMAIN pc : Ping1(r)
  \/ \E r \in DOMAIN pc : Shutdown(r)
  \/ \E r \in DOMAIN pc : Wait1(r)
  \/ \E r \in DOMAIN pc : Check1(r)
  \/ \E r \in DOMAIN pc : Escalate(r)
  \/ \E r \in DOMAIN pc : Kill(r)
  \/ \E r \in DOMAIN pc : Wait2(r)
  \/ \E r \in DOMAIN pc : Check2(r)
  \/ \E r \in DOMAIN pc : ElStart(r)
  \/ \E r \in DOMAIN pc : ElDownload(r)
  \/ \E r \in DOMAIN pc : ElHash(r)
  \/ \E r \in DOMAIN pc : ElOpen(r)
  \/ \E r \in DOMAIN pc : ElWrite(r)
  \/ \E r \in DOMAIN pc : ElReplace(r)
  \/ \E r \in DOMAIN pc : ElMarker(r)
  \/ \E r \in DOMAIN pc : ElBackups(r)
  \/ \E r \in DOMAIN pc : PbiStart(r)
  \/ \E r \in DOMAIN pc : PbiDownload(r)
  \/ \E r \in DOMAIN pc : PbiHash(r)
  \/ \E r \in DOMAIN pc : PbiOpen(r)
  \/ \E r \in DOMAIN pc : PbiWrite(r)
  \/ \E r \in DOMAIN pc : LaunchCheck(r)
  \/ \E r \in DOMAIN pc : Spawn(r)
  \/ Publish

\* one run of main()
Spec == Init /\ [][Next]_vars

NextConc ==
  \/ \E r \in DOMAIN pc : ElStart(r)
  \/ \E r \in DOMAIN pc : ElDownload(r)
  \/ \E r \in DOMAIN pc : ElHash(r)
  \/ \E r \in DOMAIN pc : ElOpen(r)
  \/ \E r \in DOMAIN pc : ElWrite(r)
  \/ \E r \in DOMAIN pc : ElReplace(r)
  \/ \E r \in DOMAIN pc : ElMarker(r)
  \/ \E r \in DOMAIN pc : ElBackups(r)
  \/ Publish

\* two runs in ensure_latest at the same time, on one install directory
SpecConc == InitConc /\ [][NextConc]_vars

\* lines 210-211 of the next launch: once the installer of run 1 has
\* returned, run 2 calls it on the install directory run 1 left
Again ==
  /\ DOMAIN pc = {1} /\ pc[1] = "launch"
  /\ pc' = [r \in {1, 2} |-> IF r = 1 THEN pc[1] ELSE "el_start"]
  /\ loc' = [r \in {1, 2} |-> IF r = 1 THEN loc[1] ELSE Loc0]
  /\ hist' = [r \in {1, 2} |-> IF r = 1 THEN hist[1] ELSE Hist0]
  /\ dir0' = InstallDir
  /\ FsUnchanged
  /\ UNCHANGED <<share, published>>

\* one call of _version_newer(v1, v2); nothing is installed and no run of
\* main() is under way
InitVer ==
  /\ pc = [r \in {1} |-> "vn_call"]
  /\ \E v1, v2 \in Versions :
       loc = [r \in {1} |-> [Loc0 EXCEPT !.v1 = v1, !.v2 = v2]]
  /\ hist = [r \in {1} |-> Hist0]
  /\ exe = NoFile /\ marker = NoFile /\ pbi = NoFile
  /\ backups = {} /\ newf = NoFile
  /\ dir0 = [exe |-> NoFile, marker |-> NoFile, pbi |-> NoFile,
             backups |-> {}, newf |-> NoFile]
  /\ handles = {}
  /\ tmpdirs = {}
  /\ share = GoodManifest(2)
  /\ published = 0

\* lines 109-112: the call returns
VersionNewer(r) ==
  /\ pc[r] = "vn_call"
  /\ hist' = [hist EXCEPT ![r].newer = _version_newer(loc[r].v1, loc[r].v2)]
  /\ Goto(r, "vn_return")
  /\ UNCHANGED loc
  /\ FsUnchanged /\ EnvUnchanged

NextVer == \E r \in DOMAIN pc : VersionNewer(r)

\* calls of the version comparator
SpecVer == InitVer /\ [][NextVer]_vars

\* one run at the installer
InitTwice == InitRuns({1}, "el_start")

NextTwice ==
  \/ \E r \in DOMAIN pc : ElStart(r)
  \/ \E r \in DOMAIN pc : ElDownload(r)
  \/ \E r \in DOMAIN pc : ElHash(r)
  \/ \E r \in DOMAIN pc : ElOpen(r)
  \/ \E r \in DOMAIN pc : ElWrite(r)
  \/ \E r \in DOMAIN pc : ElReplace(r)
  \/ \E r \in DOMAIN pc : ElMarker(r)
  \/ \E r \in DOMAIN pc : ElBackups(r)
  \/ \E r \in DOMAIN pc : PbiStart(r)
  \/ \E r \in DOMAIN pc : PbiDownload(r)
  \/ \E r \in DOMAIN pc : PbiHash(r)
  \/ \E r \in DOMAIN pc : PbiOpen(r)
  \/ \E r \in DOMAIN pc : PbiWrite(r)
  \/ Again

\* the installer (ensure_latest, ensure_pbi_tools) run twice in a row, the
\* manifest unchanged
SpecTwice == InitTwice /\ [][NextTwice]_vars

\* a statement of a run: every blocking call of main() has a timeout
\* (0.6 s a probe, 0.8 s the POST, 2 s the pid lookup, 5 s taskkill), so a
\* run that has a next statement executes it
RunStep == Next /\ <<pc, loc>>' # <<pc, loc>>

\* one run of main() that is not suspended for ever
SpecLive == Spec /\ WF_vars(RunStep)

(***************************************************************************)
(* Properties                                                              *)
(***************************************************************************)

Runs == DOMAIN pc

\* the labels of the instance coordinator
CoordPcs ==
  {"start", "read_runtime", "ping1", "shutdown", "wait1", "check1",
   "escalate", "kill", "wait2", "check2"}

\* the run has shown the blocking error and exited
Blocked(r) == pc[r] = "exit" /\ hist[r].error = "blocked"

\* the run has neither called the installer nor touched the install directory
NothingInstalled(r) ==
  /\ ~hist[r].installer_called
  /\ hist[r].downloads = 0
  /\ InstallDir = dir0
  /\ tmpdirs = {}

\* C1: the application is spawned, and the launch step reached, only when
\* the latest liveness probe of the run was not answered with ok = true.
C1_SpawnOnlyWhenNotAlive ==
  \A r \in Runs :
    (pc[r] = "spawn" \/ hist[r].spawned.exists) => hist[r].last_alive # "ok"

\* C2: a run that has sent the shutdown request and whose latest probe was
\* answered does not leave the coordinator except by the blocked outcome:
\* the error is shown, the exit code is 1, the installer was not called,
\* nothing was spawned and the install directory is as the run found it.
C2_Blocked ==
  \A r \in Runs :
    (/\ hist[r].shutdowns > 0
     /\ hist[r].last_alive # "falsy"
     /\ pc[r] \notin CoordPcs \cup {"crashed"})
    => (/\ Blocked(r)
        /\ hist[r].exit_code = 1
        /\ NothingInstalled(r)
        /\ ~hist[r].spawned.exists)

\* the blocked outcome after a forced kill that reported success
C2_Witness ==
  /\ Blocked(1) /\ hist[1].kills = 1 /\ loc[1].killed
  /\ hist[1].exit_code = 1 /\ dir0.exe.exists

\* C3 as stated: one shutdown request, at most 20 graceful polls, and once a
\* probe of the graceful phase has failed no forced kill is issued.
C3_NoKillAfterFailedPoll ==
  \A r \in Runs :
    /\ hist[r].shutdowns <= 1
    /\ loc[r].i <= GracefulPolls
    /\ loc[r].broke => (hist[r].kills = 0 /\ pc[r] \notin {"escalate", "kill"})

C3_Inv ==
  \A r \in Runs :
    /\ hist[r].shutdowns <= 1
    /\ pc[r] \in {"wait1", "check1", "escalate", "kill", "wait2", "check2"}
         => hist[r].shutdowns = 1
    /\ loc[r].i <= GracefulPolls
    /\ pc[r] = "wait1" => ~loc[r].broke
    /\ pc[r] \in {"escalate", "kill"} => hist[r].last_alive # "falsy"

C3_Step ==
  \A r \in Runs :
    /\ (pc[r] = "check1" /\ pc'[r] # "check1"
          /\ hist'[r].last_alive = "falsy")
         => (pc'[r] = "el_start" /\ hist'[r].kills = 0)
    /\ pc[r] \notin CoordPcs => hist'[r].kills = hist[r].kills

\* C3, amended: one shutdown request and at most 20 graceful polls; a failed
\* poll ends the loop; when the probe that follows the loop (line 192) fails
\* too, the run goes on to ensure_latest and never issues a forced kill; a
\* forced kill is considered only when that probe was answered.
C3_Graceful == []C3_Inv /\ [][C3_Step]_vars

\* a run that retired build 1 gracefully and launched build 2
C3_Witness ==
  /\ pc[1] = "exit" /\ hist[1].shutdowns = 1 /\ hist[1].kills = 0
  /\ hist[1].running_version = VerStr(1)
  /\ hist[1].spawned = File(Art(2)) /\ hist[1].exit_code = 0

\* C4 as stated: after a forced kill that followed 20 answered graceful
\* polls, the blocking failure is reported only after all 25 polls of the
\* second loop.
C4_BlockedOnlyAfterKillPolls ==
  \A r \in Runs :
    /\ hist[r].kills <= 1
    /\ (Blocked(r) /\ hist[r].kills = 1 /\ ~loc[r].broke)
         => loc[r].j = KillPolls

\* C4, amended: at most one forced kill, issued only after the graceful loop
\* and the probe after it; a graceful loop that did not break made all 20
\* polls; the second loop makes at most 25 polls and none when taskkill
\* reported failure; the run reports the blocking failure exactly when the
\* last probe (line 202) is answered, and goes on to install otherwise.
C4_Escalation ==
  \A r \in Runs :
    /\ hist[r].kills <= 1
    /\ hist[r].kills = 1 => hist[r].shutdowns = 1
    /\ (pc[r] \in {"check1", "escalate", "kill"} /\ ~loc[r].broke)
         => loc[r].i = GracefulPolls
    /\ loc[r].j <= KillPolls
    /\ (pc[r] \in CoordPcs \cup {"exit"} /\ ~loc[r].killed) => loc[r].j = 0
    /\ pc[r] = "wait2" => (hist[r].kills = 1 /\ loc[r].killed)
    /\ Blocked(r) => hist[r].last_alive # "falsy"
    /\ (hist[r].kills = 1 /\ pc[r] \notin CoordPcs \cup {"crashed"})
         => \/ Blocked(r) /\ ~hist[r].installer_called
            \/ hist[r].last_alive = "falsy" /\ hist[r].error # "blocked"

\* the blocking failure after a successful taskkill and 25 answered polls
C4_Witness ==
  /\ Blocked(1) /\ hist[1].kills = 1 /\ loc[1].killed
  /\ loc[1].j = KillPolls /\ ~loc[1].broke

\* the path is inside the install directory
InsideInstallDir(path) ==
  StartsWith(ReplaceSlash(Lower(path)),
             ReplaceSlash(Lower(AppDir)) \o <<"\\">>)

\* the file name of the path is validation-ui.exe
IsUiBinary(path) == EndsWith(ReplaceSlash(Lower(path)), UiSuffix)

\* C5: every step that issues taskkill is taken for a pid whose executable
\* is inside the install directory and is named validation-ui.exe.
C5_KillGuard ==
  [][\A r \in Runs :
       hist'[r].kills > hist[r].kills
         => (/\ loc[r].pid > 0
             /\ InsideInstallDir(loc[r].pid_exe)
             /\ IsUiBinary(loc[r].pid_exe))]_vars

\* the run reused the running instance and did nothing else
ReusedCleanly(r) ==
  /\ pc[r] = "exit" /\ hist[r].browser /\ hist[r].exit_code = 0
  /\ hist[r].shutdowns = 0 /\ hist[r].kills = 0
  /\ NothingInstalled(r)
  /\ ~hist[r].spawned.exists

\* the first probe has just been answered ok = true with the version (trimmed)
\* that main() read from the manifest; a manifest that could not be read, or
\* one without a version, gives main() the empty string, which is no version
ReportsLatest(r) ==
  /\ pc[r] = "ping1" /\ pc'[r] # "ping1"
  /\ hist'[r].last_alive = "ok"
  /\ loc[r].latest_version # <<>>
  /\ hist'[r].running_version = loc[r].latest_version

C6_Inv ==
  \A r \in Runs :
    hist[r].browser
      => (/\ ReusedCleanly(r)
          /\ hist[r].last_alive = "ok"
          /\ loc[r].latest_version # <<>>
          /\ hist[r].running_version = loc[r].latest_version)

\* C6: a probe that succeeds and reports the manifest's version makes the
\* run open the endpoint and exit 0, with no shutdown request, no kill, no
\* install and no spawn; and the endpoint is opened in no other case.
C6_Reuse ==
  /\ []C6_Inv
  /\ [][\A r \in Runs : ReportsLatest(r) => ReusedCleanly(r)']_vars

C6_Witness == ReusedCleanly(1) /\ hist[1].running_version = VerStr(2)

\* what a complete download of the application can be
CompleteArtifacts == {Art(v) : v \in Builds} \cup {EvilBytes}

\* C7: validation-ui.exe is absent or holds the complete bytes of one
\* artifact.
C7_NeverHalfWritten == exe.exists => exe.data \in CompleteArtifacts

\* C8: version.txt, when present, is the version of the binary at
\* validation-ui.exe.
C8_MarkerMatchesBinary ==
  marker.exists
    => (exe.exists /\ marker.data = VerStr(BuildOf(exe.data)))

\* a hash was declared and the bytes that were downloaded have another one
Tampered(declared, downloaded) ==
  downloaded.exists /\ declared # <<>> /\ _sha256(downloaded.data) # declared

\* C9: when the downloaded bytes do not have the declared hash, the target
\* and the version marker stay as the run found them, and the run goes on
\* to launch the binary that was installed before (exit 0), or reports that
\* there is none.
C9_TamperRejection ==
  \A r \in Runs :
    /\ Tampered(hist[r].el_declared, hist[r].el_downloaded)
         => (/\ exe = dir0.exe /\ marker = dir0.marker
             /\ pc[r] = "exit"
                  => IF dir0.exe.exists
                     THEN hist[r].spawned = dir0.exe /\ hist[r].exit_code = 0
                     ELSE hist[r].error = "no_binary")
    /\ Tampered(hist[r].pbi_declared, hist[r].pbi_downloaded)
         => pbi = dir0.pbi

\* build 1 was launched after the download for build 2 failed its hash check
C9_Witness ==
  /\ pc[1] = "exit" /\ hist[1].el_result = "hash_mismatch"
  /\ Tampered(hist[1].el_declared, hist[1].el_downloaded)
  /\ hist[1].spawned = File(Art(1)) /\ exe = File(Art(1))

\* the ways ensure_latest ends after a step failed
FailedResults ==
  {"download_failed", "hash_mismatch", "write_failed", "replace_failed",
   "marker_failed"}

\* C10: after a failed step the binary and the version marker are as the run
\* found them.
C10_FailureLeavesInstallation ==
  \A r \in Runs :
    hist[r].el_result \in FailedResults
      => (exe = dir0.exe /\ marker = dir0.marker)

\* the run is over
Ended(r) == pc[r] \in {"exit", "crashed"}

\* the labels whose step makes one liveness probe (and, in the two loops,
\* one sleep before it)
ProbePcs == {"ping1", "wait1", "check1", "wait2", "check2"}

\* the most probes main() makes: lines 180, 190 (20 times), 192, 200 (25
\* times), 202
MaxProbes == 1 + GracefulPolls + 1 + KillPolls + 1

\* the probes the run can still make
ProbesLeft(r) ==
  CASE pc[r] \in {"start", "read_runtime", "ping1"} -> MaxProbes
    [] pc[r] = "shutdown" -> MaxProbes - 1
    [] pc[r] = "wait1" -> (GracefulPolls - loc[r].i) + 1 + KillPolls + 1
    [] pc[r] = "check1" -> 1 + KillPolls + 1
    [] pc[r] \in {"escalate", "kill"} -> KillPolls + 1
    [] pc[r] = "wait2" -> (KillPolls - loc[r].j) + 1
    [] pc[r] = "check2" -> 1
    [] OTHER -> 0

C11_Inv ==
  \A r \in Runs :
    /\ loc[r].i <= GracefulPolls /\ loc[r].j <= KillPolls
    /\ ProbesLeft(r) \in 0..MaxProbes
    /\ Ended(r) <=> hist[r].exit_code \in {0, 1}

\* a step of run r
StepOf(r) == pc'[r] # pc[r] \/ loc'[r] # loc[r] \/ hist'[r] # hist[r]

C11_Step ==
  \A r \in Runs :
    StepOf(r) =>
      /\ ~Ended(r)
      /\ ProbesLeft(r)' <= ProbesLeft(r) - (IF pc[r] \in ProbePcs THEN 1 ELSE 0)
      /\ pc[r] \notin ProbePcs => hist'[r].last_alive = hist[r].last_alive

\* C11: each wait loop makes at most its 20, resp. 25, iterations; every
\* probing step of a run lowers the number of probes the run can still make,
\* which is at most 48 for the whole run and never negative; and every run
\* ends, with exit code 0 or 1, whatever the peer answers.
C11_BoundedWaiting ==
  /\ []C11_Inv
  /\ [][C11_Step]_vars
  /\ <>(\A r \in Runs : Ended(r))

\* the peer answered every probe of both loops: 47 probes made, one to go
C11_Witness ==
  /\ pc[1] = "check2" /\ loc[1].j = KillPolls /\ loc[1].killed
  /\ ~loc[1].broke /\ hist[1].last_alive = "ok" /\ ProbesLeft(1) = 1

\* C12: a run reads the manifest at most once.
C12_SingleFetch == \A r \in Runs : hist[r].fetches <= 1

\* the labels inside ensure_latest after its skip test, and inside
\* ensure_pbi_tools after its own
ElWorkPcs ==
  {"el_download", "el_hash", "el_open", "el_write", "el_replace",
   "el_marker", "el_backups"}

PbiWorkPcs == {"pbi_download", "pbi_hash", "pbi_open", "pbi_write"}

\* C13 as stated: the second of two installer runs downloads nothing and
\* leaves the application, the marker and the tool as it found them.
C13_SecondRunDownloadsNothing ==
  2 \in Runs
    => (/\ hist[2].downloads = 0
        /\ exe = dir0.exe /\ marker = dir0.marker /\ pbi = dir0.pbi)

\* C13, amended: when the first run ended with the application installed at
\* the manifest's version (installed by it, or found so), the second run
\* does not download the application and leaves validation-ui.exe and
\* version.txt as they are; when the first run ended with pbi-tools.exe in
\* place, the second does not download the tool and leaves it as it is; when
\* both, the second run makes no download at all.
C13_Idempotence ==
  2 \in Runs
    => (/\ hist[1].el_result \in {"installed", "up_to_date"}
             => (/\ pc[2] \notin ElWorkPcs
                 /\ hist[2].el_result \in {"", "up_to_date", "no_info"}
                 /\ ~hist[2].el_downloaded.exists
                 /\ exe = dir0.exe /\ marker = dir0.marker)
        /\ hist[1].pbi_result \in {"installed", "present"}
             => (/\ pc[2] \notin PbiWorkPcs
                 /\ hist[2].pbi_result \in {"", "present"}
                 /\ ~hist[2].pbi_downloaded.exists
                 /\ pbi = dir0.pbi)
        /\ (/\ hist[1].el_result \in {"installed", "up_to_date"}
            /\ hist[1].pbi_result \in {"installed", "present"})
             => (hist[2].downloads = 0 /\ hist[2].fetches <= 1))

\* both artifacts installed by the first run, both skipped by the second
C13_Witness ==
  /\ 2 \in Runs /\ pc[2] = "launch"
  /\ hist[1].el_result = "installed" /\ hist[1].pbi_result = "installed"
  /\ hist[1].downloads = 2
  /\ hist[2].el_result = "up_to_date" /\ hist[2].pbi_result = "present"
  /\ hist[2].downloads = 0

\* C14: when ensure_latest has installed an artifact whose hash is the one
\* the manifest declares, validation-ui.exe hashes to the declared hash
\* (trimmed, in lower case) and version.txt holds the manifest's version
\* (trimmed).
C14_RoundTrip ==
  \A r \in Runs :
    (hist[r].el_result = "installed" /\ hist[r].el_declared # <<>>)
      => (/\ _sha256(hist[r].el_downloaded.data) = hist[r].el_declared
          /\ exe.exists /\ _sha256(exe.data) = hist[r].el_declared
          /\ marker = File(hist[r].el_version)
          /\ _read_local_version(marker) = hist[r].el_version)

\* build 2 installed over build 1 from a manifest that declares its hash
C14_Witness ==
  /\ hist[1].el_result = "installed"
  /\ hist[1].el_declared = _sha256(Art(2))
  /\ dir0.exe = File(Art(1)) /\ dir0.marker = File(VerStr(1))
  /\ exe = File(Art(2)) /\ marker = File(VerStr(2))

C15_Inv ==
  \A r \in Runs :
    /\ pc[r] = "shutdown" => hist[r].last_alive = "ok"
    /\ hist[r].kills > 0 => hist[r].shutdowns = 1
    /\ (/\ pc[r] \notin CoordPcs \cup {"crashed"} /\ ~Blocked(r)
        /\ hist[r].last_alive \in {"", "truthy"})
         => (hist[r].shutdowns = 0 /\ hist[r].kills = 0)

C15_Step ==
  \A r \in Runs :
    /\ hist'[r].shutdowns > hist[r].shutdowns => pc[r] = "shutdown"
    /\ hist'[r].kills > hist[r].kills => pc[r] = "kill"
    /\ (pc[r] = "ping1" /\ StepOf(r) /\ hist'[r].last_alive # "ok")
         => (/\ pc'[r] = "el_start"
             /\ hist'[r].shutdowns = 0 /\ hist'[r].kills = 0)

\* C15: the shutdown request is sent only right after a probe of the run was
\* answered with ok = true, and a kill only after that request; a first
\* probe that fails or is answered with anything else takes the run straight
\* to the installer, with no shutdown request and no kill.
C15_NoTrustWithoutPing == []C15_Inv /\ [][C15_Step]_vars

\* C16: a run has exit code 0 exactly when it spawned the application or
\* opened the running instance, and exit code 1 exactly when it reported
\* that there is no binary or that the running instance could not be
\* retired; when it reported that there is no binary, there is none and
\* nothing was spawned.
C16_ExitCodes ==
  \A r \in Runs :
    /\ hist[r].exit_code = 0 <=> (hist[r].spawned.exists \/ hist[r].browser)
    /\ hist[r].exit_code = 1 <=> hist[r].error \in {"no_binary", "blocked"}
    /\ hist[r].error = "no_binary" => (~hist[r].spawned.exists /\ ~exe.exists)

\* what a complete download of the auxiliary tool can be
CompleteTools == {PbiArt, EvilPbi}

\* C17: pbi-tools.exe is absent or holds the complete bytes of one download,
\* and a file that is there is removed only by a step that puts a complete
\* one in its place.
C17_PbiNeverPartial ==
  /\ [](pbi.exists => pbi.data \in CompleteTools)
  /\ [][pbi.exists => pbi'.exists]_vars

\* _version_newer(v1, v2) has returned result
Compared(r, v1, v2, result) ==
  /\ pc[r] = "vn_return" /\ loc[r].v1 = v1 /\ loc[r].v2 = v2
  /\ hist[r].newer = result

\* every segment of v is a number
NumericOnly(v) == \A k \in 1..Len(SplitDot(v)) : isdigit(SplitDot(v)[k])

\* a list of numbers without its trailing zeros
RECURSIVE DropZeros(_)
DropZeros(a) ==
  IF a # <<>> /\ a[Len(a)] = 0 THEN DropZeros(SubSeq(a, 1, Len(a) - 1))
  ELSE a

\* two versions of numeric segments with the same value: leading zeros of a
\* segment and trailing zero segments do not count
EqualInValue(v1, v2) ==
  /\ NumericOnly(v1) /\ NumericOnly(v2)
  /\ DropZeros(parse(v1)) = DropZeros(parse(v2))

\* a is b followed by at least one more number
Extends(a, b) == Len(a) > Len(b) /\ SubSeq(a, 1, Len(b)) = b

\* C18 as stated: of two versions that are equal in value neither is newer
\* than the other; _version_newer("1.2.0", "1.2") is false.
C18_EqualValueNotNewer ==
  \A r \in Runs :
    (pc[r] = "vn_return" /\ EqualInValue(loc[r].v1, loc[r].v2))
      => ~hist[r].newer

\* C18, amended: of two versions whose numeric segments give the same list
\* of integers (they differ in leading zeros or in segments that are not
\* numbers) neither is newer than the other; a version whose list extends
\* the other's is the newer one, also when the extra segments are zeros:
\* _version_newer("1.2.0", "1.2") is true and _version_newer("1.2", "1.2.0")
\* is false.
C18_TieBreak ==
  \A r \in Runs :
    pc[r] = "vn_return" =>
      LET a == parse(loc[r].v1)
          b == parse(loc[r].v2)
      IN  /\ a = b => ~hist[r].newer
          /\ Extends(a, b) => hist[r].newer
          /\ Extends(b, a) => ~hist[r].newer
          /\ (loc[r].v1 = V_1_2_0 /\ loc[r].v2 = V_1_2) => hist[r].newer
          /\ (loc[r].v1 = V_1_02 /\ loc[r].v2 = V_1_2) => ~hist[r].newer
          /\ (loc[r].v1 = V_1_2 /\ loc[r].v2 = V_1_02) => ~hist[r].newer

\* "1.2.0" compared with "1.2"
C18_Witness == Compared(1, V_1_2_0, V_1_2, TRUE)

\* C19 as stated: _version_newer("1.2", "1.10") and
\* _version_newer("2.0.0", "1.9.9") are true.
C19_Examples ==
  \A r \in Runs :
    pc[r] = "vn_return" =>
      /\ (loc[r].v1 = V_1_2 /\ loc[r].v2 = V_1_10) => hist[r].newer
      /\ (loc[r].v1 = V_2_0_0 /\ loc[r].v2 = V_1_9_9) => hist[r].newer

\* the lists agree before position k and a has the greater number there
GreaterAt(a, b, k) ==
  /\ k <= Len(a) /\ k <= Len(b)
  /\ SubSeq(a, 1, k - 1) = SubSeq(b, 1, k - 1)
  /\ a[k] > b[k]

\* C19, amended: segments are compared as integers, the first difference
\* deciding: _version_newer("1.10", "1.2") is true,
\* _version_newer("1.2", "1.10") is false and
\* _version_newer("2.0.0", "1.9.9") is true.
C19_Numeric ==
  \A r \in Runs :
    pc[r] = "vn_return" =>
      LET a == parse(loc[r].v1)
          b == parse(loc[r].v2)
      IN  /\ (\E k \in 1..Len(a) : GreaterAt(a, b, k)) => hist[r].newer
          /\ (\E k \in 1..Len(b) : GreaterAt(b, a, k)) => ~hist[r].newer
          /\ (loc[r].v1 = V_1_10 /\ loc[r].v2 = V_1_2) => hist[r].newer
          /\ (loc[r].v1 = V_1_2 /\ loc[r].v2 = V_1_10) => ~hist[r].newer
          /\ (loc[r].v1 = V_2_0_0 /\ loc[r].v2 = V_1_9_9) => hist[r].newer
          /\ (loc[r].v1 = V_1_9_9 /\ loc[r].v2 = V_2_0_0) => ~hist[r].newer

\* "1.10" compared with "1.2"
C19_Witness == Compared(1, V_1_10, V_1_2, TRUE)

\* C20: a run whose manifest advertises another launcher hands over to the
\* helper before anything else: it makes no liveness probe, sends no
\* shutdown request, does not call the installer and spawns no application.
C20_HandoffFirst ==
  \A r \in Runs :
    hist[r].launcher_advertised
      => (/\ hist[r].last_alive = "" /\ hist[r].shutdowns = 0
          /\ ~hist[r].installer_called /\ hist[r].downloads = 0
          /\ ~hist[r].spawned.exists /\ ~hist[r].browser)

\* C21: no temporary download survives the run that made it: once a run has
\* ended, none of the validation_update_* directories its _download calls
\* created is still on disk.
C21_NoTempSurvives ==
  \A r \in Runs :
    Ended(r) => \A t \in tmpdirs : t.run # r

\* the run sent a shutdown request or a forced kill to the instance that
\* answered its first probe, and then started the application
RetiredAndLaunched(r) ==
  /\ hist[r].shutdowns > 0 \/ hist[r].kills > 0
  /\ hist[r].spawned.exists

\* C22: an instance is retired only to be replaced by a newer build: in a
\* run that retired the running instance and then started the application,
\* the started binary is the build the manifest named as latest, and that is
\* not the version the retired instance reported.
C22_RetiredOnlyForNewer ==
  \A r \in Runs :
    RetiredAndLaunched(r)
      => LET launched == VerStr(BuildOf(hist[r].spawned.data))
         IN  /\ hist[r].latest_version # <<>>
             /\ launched = hist[r].latest_version
             /\ launched # hist[r].running_version

====
